---------------------------- MODULE Spec2Model ----------------------------
(***************************************************************************)
(* A model of the VOID whisper board (backend/server.js, backend/seed.js).*)
(*                                                                         *)
(* The store is the three MongoDB collections (User, VoidPost, VoidReply). *)
(* Every Express handler is an async function: it runs from one await to   *)
(* the next without interruption (Node is single threaded) and another     *)
(* request may run between two awaits.  One action of the model is one     *)
(* database operation together with the synchronous code that follows it   *)
(* up to the next await.  A single database operation ($inc, create,       *)
(* updateMany, aggregate) is atomic on the documents it touches.           *)
(*                                                                         *)
(* Payload that no handler ever reads back (the mood and text of a stored  *)
(* post or reply, a reply's createdAt) is validated on input and not kept  *)
(* in the store.  The read-only routes /api/me, /api/my-room and           *)
(* /api/admin/dashboard write nothing of their own (authUser apart) and    *)
(* are not modelled.                                                       *)
(***************************************************************************)
EXTENDS Integers, Sequences, FiniteSets, TLC

(***************************************************************************)
(* Bounds of the model.                                                    *)
(***************************************************************************)
\* Requests accepted in one behaviour of Spec (the seed run not counted).
MaxRequests == 2

\* Requests accepted in one behaviour of SpecReport or SpecReply.
MaxReports == 3

\* Requests in flight at the same time.
MaxInFlight == 2

\* Characters of the longest text SpecModerate draws from its alphabet.
MaxTextLen == 4

Slots == 1 .. MaxInFlight

(***************************************************************************)
(* Values.                                                                 *)
(***************************************************************************)
\* A header, query or body field the request does not carry (undefined).
Absent == "<absent>"

\* A document field the stored document does not have.
NoField == <<>>

Field(v) == <<v>>

\* x-void-key values sent by clients: two well-formed keys and malformed ones.
KeyA == "VOID-AAAA-AAAA-AAAA"

KeyB == "VOID-B2B2-B2B2-B2B2"

KeyLower == "void-aaaa-aaaa-aaaa"

KeyShort == "VOID-AAAA-AAAA"

KeyInputs == {Absent, KeyA, KeyB, KeyLower}

\* The characters of a string (TLC cannot take a string apart).
Chars(k) ==
    CASE k = KeyA -> <<"V", "O", "I", "D", "-", "A", "A", "A", "A", "-",
                       "A", "A", "A", "A", "-", "A", "A", "A", "A">>
      [] k = KeyB -> <<"V", "O", "I", "D", "-", "B", "2", "B", "2", "-",
                       "B", "2", "B", "2", "-", "B", "2", "B", "2">>
      [] k = KeyLower -> <<"v", "o", "i", "d", "-", "a", "a", "a", "a", "-",
                           "a", "a", "a", "a", "-", "a", "a", "a", "a">>
      [] k = KeyShort -> <<"V", "O", "I", "D", "-", "A", "A", "A", "A", "-",
                           "A", "A", "A", "A">>
      [] k = "I want to die today" ->
            <<"I", " ", "w", "a", "n", "t", " ", "t", "o", " ", "d", "i", "e",
              " ", "t", "o", "d", "a", "y">>
      [] k = "I had a great day" ->
            <<"I", " ", "h", "a", "d", " ", "a", " ", "g", "r", "e", "a", "t",
              " ", "d", "a", "y">>
      [] k = "I STUDIED" -> <<"I", " ", "S", "T", "U", "D", "I", "E", "D">>
      [] OTHER -> <<>>

UpperChars ==
    <<"A", "B", "C", "D", "E", "F", "G", "H", "I", "J", "K", "L", "M",
      "N", "O", "P", "Q", "R", "S", "T", "U", "V", "W", "X", "Y", "Z">>

LowerChars ==
    <<"a", "b", "c", "d", "e", "f", "g", "h", "i", "j", "k", "l", "m",
      "n", "o", "p", "q", "r", "s", "t", "u", "v", "w", "x", "y", "z">>

DigitChars == <<"0", "1", "2", "3", "4", "5", "6", "7", "8", "9">>

Range(s) == {s[i] : i \in DOMAIN s}

\* [A-Z0-9]
UpperAlnum == Range(UpperChars) \cup Range(DigitChars)

\* /^VOID-[A-Z0-9]{4}-[A-Z0-9]{4}-[A-Z0-9]{4}$/ .test(voidKey)
keyPattern(k) ==
    LET c == Chars(k) IN
    /\ Len(c) = 19
    /\ SubSeq(c, 1, 5) = <<"V", "O", "I", "D", "-">>
    /\ \A i \in {6, 7, 8, 9, 11, 12, 13, 14, 16, 17, 18, 19} : c[i] \in UpperAlnum
    /\ c[10] = "-"
    /\ c[15] = "-"

\* keyPattern over the keys clients send, computed once.
WellFormed == {k \in KeyInputs : keyPattern(k)}

\* The author of the seed script's generated posts.
SystemSeed == "system_seed"

(***************************************************************************)
(* moderateText                                                            *)
(***************************************************************************)
\* String.prototype.toLowerCase, on one character.
LowerChar(c) ==
    IF \E i \in DOMAIN UpperChars : UpperChars[i] = c
    THEN LowerChars[CHOOSE i \in DOMAIN UpperChars : UpperChars[i] = c]
    ELSE c

toLowerCase(t) == [i \in DOMAIN t |-> LowerChar(t[i])]

\* A match that must also start and end at a word boundary.
includesWord(t, w) ==
    \E i \in 1 .. (Len(t) - Len(w) + 1) :
        /\ SubSeq(t, i, i + Len(w) - 1) = w
        /\ (i = 1 \/ t[i - 1] = " ")
        /\ (i + Len(w) - 1 = Len(t) \/ t[i + Len(w)] = " ")

\* String.prototype.includes
includes(t, w) ==
    \E i \in 1 .. (Len(t) - Len(w) + 1) : SubSeq(t, i, i + Len(w) - 1) = w

prohibited ==
    << <<"s", "u", "i", "c", "i", "d", "e">>,
       <<"k", "i", "l", "l", " ", "m", "y", "s", "e", "l", "f">>,
       <<"d", "i", "e">>,
       <<"m", "u", "r", "d", "e", "r">>,
       <<"h", "a", "t", "e", " ", "y", "o", "u">> >>

\* !prohibited.some(word => text.toLowerCase().includes(word)), on the
\* characters of the text.
moderateChars(c) ==
    ~ \E n \in DOMAIN prohibited : includes(toLowerCase(c), prohibited[n])

moderateText(text) == moderateChars(Chars(text))

\* Request texts.
TextDie == "I want to die today"

TextDay == "I had a great day"

TextStudied == "I STUDIED"

TextInputs == {"", TextDie, TextDay, TextStudied}

MoodInputs == {Absent, "sad"}

\* moderateText over the texts clients send, computed once.
Admissible == {t \in TextInputs : moderateText(t)}

\* !x for a string or undefined x
Falsy(x) == x = Absent \/ x = ""

(***************************************************************************)
(* The store.                                                              *)
(***************************************************************************)
VARIABLES
    users,     \* User collection: deviceToken -> [lightPoints, isBanned]
    posts,     \* VoidPost collection, in insertion order; the _id is the index
    replies,   \* VoidReply collection, in insertion order; the _id is the index
    now,       \* Date.now() of the last document stamped
    reqs,      \* the request in flight in each slot
    response,  \* what the last step sent to a client, if anything
    left,      \* requests the model still accepts
    seeded,    \* the seed script has run
    answered   \* <<type, id>> -> report requests on that entity answered so far;
               \* <<"ban", token>> -> bans with deleteContent completed

vars == <<users, posts, replies, now, reqs, response, left, seeded, answered>>

Idle == [pc |-> "idle"]

NoResponse == [kind |-> "none"]

validRooms == {"general", "love", "work", "family", "life"}

\* voidPostSchema defaults (server.js)
NewPost(room, author, at) ==
    [room |-> room, authorToken |-> author, status |-> "active",
     reports |-> Field(0), replyCount |-> 0, createdAt |-> at]

\* voidReplySchema defaults
NewReply(postId, responder, isAuthor) ==
    [postId |-> postId, responderToken |-> responder, isAuthorReply |-> isAuthor,
     status |-> "visible", reports |-> Field(0)]

\* userSchema defaults
NewUser == [lightPoints |-> 0, isBanned |-> FALSE]

Init ==
    /\ users = [k \in {} |-> NewUser]
    /\ posts = << >>
    /\ replies = << >>
    /\ now = 0
    /\ reqs = [s \in Slots |-> Idle]
    /\ response = NoResponse
    /\ left = MaxRequests
    /\ seeded = FALSE
    /\ answered = [e \in {} |-> 0]

(***************************************************************************)
(* MongoDB operators, on a field that a document may lack.                 *)
(***************************************************************************)
\* { field: { $lt: n } } matches only documents that have the field.
Lt(f, n) == f # NoField /\ f[1] < n

\* An increment that stops counting at 3.
IncCapped(f) ==
    IF f = NoField THEN Field(1) ELSE IF f[1] >= 3 THEN f ELSE Field(f[1] + 1)

\* { $inc: { field: 1 } } creates a missing field with the increment.
Inc(f) == IF f = NoField THEN Field(1) ELSE Field(f[1] + 1)

\* Model.findById / findByIdAndUpdate: the document with that _id, if any.
Exists(coll, id) == id # NoField /\ id[1] \in DOMAIN coll

\* What a hydrated document shows for reports (the schema default is 0).
ReportCount(doc) == IF doc.reports = NoField THEN 0 ELSE doc.reports[1]

(***************************************************************************)
(* Program constants.                                                      *)
(***************************************************************************)
\* reports: { $lt: 3 } in matchStage
MatchReportsBelow == 3

\* { $limit: 50 }
PoolLimit == 50

\* if (p.reports > 3)
HideAtLate == 3 + 1

\* if (p.reports >= 3)
HideAt == 3

\* { $inc: { lightPoints: 1 } } after a post, { $inc: { lightPoints: 5 } } after a reply
PostPoints == 1

ReplyPoints == 5

ADMIN_KEY == "secret123"

(***************************************************************************)
(* Requests.                                                               *)
(***************************************************************************)
\* A request as it arrives: the header key and the query/body fields.
Request(kind, key, mood, text, room, id, type, token, del) ==
    [pc |-> "arrived", kind |-> kind, key |-> key, mood |-> mood, text |-> text,
     room |-> room, id |-> id, type |-> type, token |-> token, del |-> del,
     isAuthor |-> FALSE]

\* The end of a request: the status sent and, for a post sent back, its _id.
\* The requester and the room filter are kept for a selection.
Answer(r, status, out) ==
    [pc |-> "done", kind |-> r.kind,
     key |-> IF r.kind = "random" \/ status = "shadow" THEN r.key ELSE Absent,
     room |-> IF r.kind = "random" THEN r.room ELSE Absent,
     status |-> status, out |-> out]

\* A handler whose promise rejected: Express 4 sends no response.
Thrown(r) == Answer(r, "rejected", 0)

Free(s) == reqs[s].pc = "idle"

\* The slot takes the request's next position, or is freed when it ended.
Settle(s, r) ==
    IF r.pc = "done"
    THEN /\ reqs' = [reqs EXCEPT ![s] = Idle]
         /\ response' = [kind |-> r.kind, key |-> r.key, room |-> r.room,
                          status |-> r.status, out |-> r.out]
    ELSE /\ reqs' = [reqs EXCEPT ![s] = r]
         /\ response' = NoResponse

\* Requests in flight are told apart by nothing but their contents: a new
\* one takes the first free slot.
FirstFree(s) == Free(s) /\ \A t \in Slots : t < s => ~ Free(t)

At(s, pc) == reqs[s].pc = pc

\* if (room && room !== 'all') matchStage.room = room;
RoomFiltered(room) == ~ Falsy(room) /\ room # "all"

\* const assignedRoom = validRooms.includes(room) ? room : 'general';
assignedRoom(room) == IF room \in validRooms THEN room ELSE "general"

\* The synchronous head of each handler, up to its first await: a function
\* of the request alone.  Fields the handler does not read again are cleared.
Enter(r) ==
    CASE r.kind = "post" ->
           IF Falsy(r.mood) \/ Falsy(r.text) THEN Answer(r, "400", 0)
           ELSE IF r.text \notin Admissible THEN Answer(r, "400", 0)
           ELSE [r EXCEPT !.pc = "postCreate", !.room = assignedRoom(r.room),
                          !.mood = Absent, !.text = Absent]
      [] r.kind = "random" ->
           [r EXCEPT !.pc = "aggregate",
                     !.room = IF RoomFiltered(r.room) THEN r.room ELSE Absent]
      [] r.kind = "reply" ->
           IF r.id = NoField \/ Falsy(r.text) THEN Answer(r, "400", 0)
           ELSE [r EXCEPT !.pc = "replyFind"]
      [] r.kind = "report" ->
           [r EXCEPT !.pc = "reportInc", !.key = Absent,
                     !.type = IF r.type = "post" THEN "post" ELSE "reply"]

\* authUser once the user document is at hand: the shadow response for a
\* banned user, or next() into the handler, whose head leaves `entered`.
AfterAuth(entered, user) ==
    IF user.isBanned THEN Answer(entered, "shadow", 0) ELSE entered

\* authUser between User.findOne and User.create.
Pending(key, entered) ==
    [pc |-> "authCreate", kind |-> entered.kind, key |-> key,
     room |-> entered.room, entered |-> entered]

\* authUser up to and including User.findOne.
Auth(r) ==
    IF r.key = Absent THEN Answer(r, "401", 0)
    ELSE IF r.key \notin WellFormed THEN Answer(r, "401", 0)
    ELSE IF r.key \in DOMAIN users THEN AfterAuth(Enter(r), users[r.key])
    ELSE Pending(r.key, Enter(r))

CanAccept(s) == FirstFree(s) /\ left > 0

Accept(s, r) ==
    /\ left' = left - 1
    /\ Settle(s, Auth(r))
    /\ UNCHANGED <<users, posts, replies, now, seeded, answered>>

\* user = await User.create({ deviceToken: voidKey }); deviceToken is unique.
AuthCreate(s) ==
    /\ At(s, "authCreate")
    /\ LET r == reqs[s] IN
       IF r.key \in DOMAIN users
       THEN /\ Settle(s, Thrown(r))
            /\ UNCHANGED users
       ELSE /\ users' = [k \in DOMAIN users \cup {r.key} |->
                            IF k = r.key THEN NewUser ELSE users[k]]
            /\ Settle(s, AfterAuth(r.entered, NewUser))
    /\ UNCHANGED <<posts, replies, now, left, seeded, answered>>

\* An update that sets lightPoints to n where the code increments by n.
SetPoints(us, key, n) ==
    IF key \in DOMAIN us
    THEN [us EXCEPT ![key].lightPoints = n]
    ELSE us

\* User.findOneAndUpdate({ deviceToken }, { $inc: { lightPoints: n } })
IncPoints(us, key, n) ==
    IF key \in DOMAIN us
    THEN [us EXCEPT ![key].lightPoints = @ + n]
    ELSE us

(***************************************************************************)
(* POST /api/post                                                          *)
(***************************************************************************)
\* "career" is no valid room, and only seeded posts carry it.
RoomInputs == {Absent, "all", "love", "career"}

StartPost(s) ==
    /\ CanAccept(s)
    /\ \E key \in KeyInputs, mood \in MoodInputs, text \in TextInputs,
       room \in RoomInputs :
        Accept(s, Request("post", key, mood, text, room, NoField, Absent,
                          Absent, FALSE))

\* await VoidPost.create({...}); createdAt defaults to Date.now, which has
\* moved on since the last insert (equal stamps come with the seed).
PostCreate(s) ==
    /\ At(s, "postCreate")
    /\ now' = now + 1
    /\ posts' = Append(posts, NewPost(reqs[s].room, reqs[s].key, now'))
    /\ Settle(s, [reqs[s] EXCEPT !.pc = "postReward",
                                  !.id = Field(Len(posts) + 1)])
    /\ UNCHANGED <<users, replies, left, seeded, answered>>

PostReward(s) ==
    /\ At(s, "postReward")
    /\ users' = IncPoints(users, reqs[s].key, PostPoints)
    /\ Settle(s, Answer(reqs[s], "201", reqs[s].id[1]))
    /\ UNCHANGED <<posts, replies, now, left, seeded, answered>>

(***************************************************************************)
(* GET /api/post/random                                                    *)
(***************************************************************************)
\* matchStage without authorToken: { $ne: ... }.
matchStageOwn(p, requester, room) ==
    /\ p.status = "active"
    /\ Lt(p.reports, 3)
    /\ (room # Absent => p.room = room)

\* matchStage without reports: { $lt: 3 }: the status alone decides.
matchStageStatusOnly(p, requester, room) ==
    /\ p.status = "active"
    /\ p.authorToken # requester
    /\ (room # Absent => p.room = room)

\* { $match: matchStage }; `room` is matchStage.room, Absent when not set.
matchStage(p, requester, room) ==
    /\ p.status = "active"
    /\ Lt(p.reports, MatchReportsBelow)
    /\ p.authorToken # requester
    /\ (room # Absent => p.room = room)

Matched(ps, requester, room) ==
    {i \in DOMAIN ps : matchStage(ps[i], requester, room)}

\* { $sort: { replyCount: 1, createdAt: -1 } }: p sorts strictly before q.
SortsBefore(p, q) ==
    \/ p.replyCount < q.replyCount
    \/ p.replyCount = q.replyCount /\ p.createdAt > q.createdAt

\* { $limit: 50 } after the sort.  Documents equal on both sort keys come in
\* an order MongoDB does not fix, so a document can be among the first
\* PoolLimit exactly when fewer than PoolLimit documents sort strictly
\* before it.
Pool(ps, ids) ==
    {i \in ids :
        Cardinality({j \in ids : SortsBefore(ps[j], ps[i])}) < PoolLimit}

\* The documents the pipeline can return; { $sample: { size: 1 } } picks one.
Sample(ps, requester, room) == Pool(ps, Matched(ps, requester, room))

StartRandom(s) ==
    /\ CanAccept(s)
    /\ \E key \in KeyInputs, room \in RoomInputs :
        Accept(s, Request("random", key, Absent, Absent, room, NoField,
                          Absent, Absent, FALSE))

\* A selection that counts the post it returns as replied to.
AggregateCounting(s) ==
    /\ At(s, "aggregate")
    /\ LET r == reqs[s]
           pool == Sample(posts, r.key, r.room)
       IN  IF pool = {}
           THEN Settle(s, Answer(r, "204", 0)) /\ UNCHANGED posts
           ELSE \E i \in pool :
                    /\ Settle(s, Answer(r, "200", i))
                    /\ posts' = [posts EXCEPT ![i].replyCount = @ + 1]
    /\ UNCHANGED <<users, replies, now, left, seeded, answered>>

Aggregate(s) ==
    /\ At(s, "aggregate")
    /\ LET r == reqs[s]
           pool == Sample(posts, r.key, r.room)
       IN  IF pool = {}
           THEN Settle(s, Answer(r, "204", 0))
           ELSE \E i \in pool : Settle(s, Answer(r, "200", i))
    /\ UNCHANGED <<users, posts, replies, now, left, seeded, answered>>

(***************************************************************************)
(* POST /api/reply                                                         *)
(***************************************************************************)
\* The _ids clients send: posts written through the API, one seeded post of
\* each kind, and a well-formed _id of no document (0).
PostIdInputs ==
    LET api == {i \in DOMAIN posts : posts[i].authorToken \notin {Absent, SystemSeed}}
        career == {i \in DOMAIN posts : posts[i].room = "career"}
        First(S) == IF S = {} THEN {} ELSE {CHOOSE i \in S : \A j \in S : i <= j}
    IN  api \cup First(career) \cup {0}

ReplyIdInputs == DOMAIN replies \cup {0}

\* The handler checks the text for presence alone: one inadmissible and one
\* admissible text stand for the others.
ReplyTextInputs == {"", TextDie, TextDay}

StartReply(s) ==
    /\ CanAccept(s)
    /\ \E key \in KeyInputs, text \in ReplyTextInputs,
       id \in {NoField} \cup {Field(i) : i \in PostIdInputs} :
        Accept(s, Request("reply", key, Absent, text, Absent, id, Absent,
                          Absent, FALSE))

\* const post = await VoidPost.findById(postId);
ReplyFind(s) ==
    /\ At(s, "replyFind")
    /\ LET r == reqs[s] IN
       IF ~ Exists(posts, r.id)
       THEN Settle(s, Answer(r, "404", 0))
       ELSE Settle(s, [r EXCEPT !.pc = "replyCreate",
                                !.isAuthor = (posts[r.id[1]].authorToken = r.key)])
    /\ UNCHANGED <<users, posts, replies, now, left, seeded, answered>>

ReplyCreate(s) ==
    /\ At(s, "replyCreate")
    /\ replies' = Append(replies,
                         NewReply(reqs[s].id[1], reqs[s].key, reqs[s].isAuthor))
    /\ Settle(s, [reqs[s] EXCEPT !.pc = "replyInc", !.text = Absent])
    /\ UNCHANGED <<users, posts, now, left, seeded, answered>>

\* An update that counts a reply only on a post that is still active.
IncReplyCountActive(ps, id) ==
    IF ps[id].status = "active" THEN [ps EXCEPT ![id].replyCount = @ + 1] ELSE ps

\* { $inc: { replyCount: 1 } } on the post with that _id, whatever its status.
IncReplyCount(ps, id) == [ps EXCEPT ![id].replyCount = @ + 1]

\* await VoidPost.findByIdAndUpdate(postId, { $inc: { replyCount: 1 } });
ReplyInc(s) ==
    /\ At(s, "replyInc")
    /\ posts' = IncReplyCount(posts, reqs[s].id[1])
    /\ Settle(s, [reqs[s] EXCEPT !.pc = "replyReward"])
    /\ UNCHANGED <<users, replies, now, left, seeded, answered>>

ReplyReward(s) ==
    /\ At(s, "replyReward")
    /\ users' = IncPoints(users, reqs[s].key, ReplyPoints)
    /\ Settle(s, Answer(reqs[s], "200", 0))
    /\ UNCHANGED <<posts, replies, now, left, seeded, answered>>

(***************************************************************************)
(* POST /api/report                                                        *)
(***************************************************************************)
\* if (type === 'post') {...} else {...}: the collection the report goes to.
Branch(type) == IF type = "post" THEN "post" ELSE "reply"

Coll(branch) == IF branch = "post" THEN posts ELSE replies

\* Without { new: true } the update resolves to the document as it was.
ReturnedStale(before, after) == before

\* findByIdAndUpdate(id, { $inc: ... }, { new: true }) resolves to the
\* document as it is after the update.
Returned(before, after) == after

Count(e) == IF e \in DOMAIN answered THEN answered[e] ELSE 0

Counted(e) ==
    [x \in DOMAIN answered \cup {e} |-> IF x = e THEN Count(e) + 1 ELSE answered[x]]

StartReport(s) ==
    /\ CanAccept(s)
    /\ \E key \in KeyInputs, type \in {"post", "reply", Absent} :
      \E i \in IF type = "post" THEN PostIdInputs ELSE ReplyIdInputs :
        Accept(s, Request("report", key, Absent, Absent, Absent, Field(i),
                          type, Absent, FALSE))

\* const p = await ...findByIdAndUpdate(id, { $inc: { reports: 1 } }, { new: true });
\* if (p.reports >= 3) ...   (p is null when no document has that _id)
ReportInc(s) ==
    /\ At(s, "reportInc")
    /\ LET r == reqs[s]
           b == Branch(r.type)
       IN  IF ~ Exists(Coll(b), r.id)
           THEN /\ Settle(s, Thrown(r))
                /\ UNCHANGED <<posts, replies, answered>>
           ELSE LET i == r.id[1]
                    before == Coll(b)[i].reports
                    after == Inc(before)
                    hide == Returned(ReportCount([reports |-> before]),
                                     ReportCount([reports |-> after])) >= HideAt
                IN  /\ IF b = "post"
                       THEN /\ posts' = [posts EXCEPT ![i].reports = after]
                            /\ UNCHANGED replies
                       ELSE /\ replies' = [replies EXCEPT ![i].reports = after]
                            /\ UNCHANGED posts
                    /\ IF hide
                       THEN /\ Settle(s, [r EXCEPT !.pc = "reportHide"])
                            /\ UNCHANGED answered
                       ELSE /\ Settle(s, Answer(r, "200", 0))
                            /\ answered' = Counted(<<b, i>>)
    /\ UNCHANGED <<users, now, left, seeded>>

\* await ...findByIdAndUpdate(id, { status: "hidden" });
ReportHide(s) ==
    /\ At(s, "reportHide")
    /\ LET r == reqs[s]
           b == Branch(r.type)
           i == r.id[1]
       IN  /\ IF b = "post"
              THEN /\ posts' = [posts EXCEPT ![i].status = "hidden"]
                   /\ UNCHANGED replies
              ELSE /\ replies' = [replies EXCEPT ![i].status = "hidden"]
                   /\ UNCHANGED posts
           /\ Settle(s, Answer(r, "200", 0))
           /\ answered' = Counted(<<b, i>>)
    /\ UNCHANGED <<users, now, left, seeded>>

(***************************************************************************)
(* DELETE /api/admin/ban                                                   *)
(***************************************************************************)
AdminKeyInputs == {ADMIN_KEY, "wrong"}

\* The two keys are interchangeable everywhere else: banning one covers both.
BanTokenInputs == {KeyA}

\* if (req.query.key !== ADMIN_KEY) return 403;
\* await User.findOneAndUpdate({ deviceToken: token }, { isBanned: true });
StartBan(s) ==
    /\ CanAccept(s)
    /\ \E adminKey \in AdminKeyInputs, token \in BanTokenInputs, del \in BOOLEAN :
        /\ left' = left - 1
        /\ LET r == Request("ban", Absent, Absent, Absent, Absent, NoField,
                            Absent, token, del)
           IN  IF adminKey # ADMIN_KEY
               THEN /\ Settle(s, Answer(r, "403", 0))
                    /\ UNCHANGED users
               ELSE /\ users' = IF token \in DOMAIN users
                                THEN [users EXCEPT ![token].isBanned = TRUE]
                                ELSE users
                    /\ Settle(s, IF del THEN [r EXCEPT !.pc = "banPosts"]
                                  ELSE Answer(r, "200", 0))
        /\ UNCHANGED <<posts, replies, now, seeded, answered>>

\* await VoidPost.updateMany({ authorToken: token }, { status: "deleted" });
BanPosts(s) ==
    /\ At(s, "banPosts")
    /\ posts' = [i \in DOMAIN posts |->
                    IF posts[i].authorToken = reqs[s].token
                    THEN [posts[i] EXCEPT !.status = "deleted"]
                    ELSE posts[i]]
    /\ Settle(s, [reqs[s] EXCEPT !.pc = "banReplies"])
    /\ UNCHANGED <<users, replies, now, left, seeded, answered>>

\* await VoidReply.updateMany({ responderToken: token }, { status: "deleted" });
BanReplies(s) ==
    /\ At(s, "banReplies")
    /\ replies' = [i \in DOMAIN replies |->
                      IF replies[i].responderToken = reqs[s].token
                      THEN [replies[i] EXCEPT !.status = "deleted"]
                      ELSE replies[i]]
    /\ Settle(s, Answer(reqs[s], "200", 0))
    /\ answered' = Counted(<<"ban", reqs[s].token>>)
    /\ UNCHANGED <<users, posts, now, left, seeded>>

(***************************************************************************)
(* seed.js                                                                 *)
(***************************************************************************)
\* The rooms of seedData, in order.
seedData ==
    <<"life", "love", "work", "general", "family",
      "life", "love", "general", "career", "general">>

\* for (let i = 0; i < 30; i++)
SeedExtras == 30

\* The seed script's own schema: no reports field, no default for room.
SeedPost(room, author, at) ==
    [room |-> room, authorToken |-> author, status |-> "active",
     reports |-> NoField, replyCount |-> 0, createdAt |-> at]

\* room: ["general", "life"][Math.floor(Math.random() * 2)].  Of the 2^30
\* outcomes the model draws those where the first g extras are "general"
\* and the others "life".
SeedSplits == {15}

\* [...seedData, ...extras]
SeededPosts(g, at) ==
    [i \in DOMAIN seedData |-> SeedPost(seedData[i], Absent, at)]
    \o [i \in 1 .. SeedExtras |->
          SeedPost(IF i <= g THEN "general" ELSE "life", SystemSeed, at)]

\* await VoidPost.insertMany([...seedData, ...extras]);
Seed ==
    /\ ~ seeded
    /\ posts = << >>
    /\ seeded' = TRUE
    /\ \E g \in SeedSplits : posts' = posts \o SeededPosts(g, now)
    /\ response' = NoResponse
    /\ UNCHANGED <<users, replies, now, reqs, left, answered>>

(***************************************************************************)
(* The system from an empty database: the seed script, posts, selections,  *)
(* replies and bans.  Hiding takes three reports on one entity; the report *)
(* route is taken up below, from stores that have reports on them.         *)
(***************************************************************************)
Next ==
    \/ Seed
    \/ \E s \in Slots : StartPost(s)
    \/ \E s \in Slots : StartRandom(s)
    \/ \E s \in Slots : StartReply(s)
    \/ \E s \in Slots : StartBan(s)
    \/ \E s \in Slots : AuthCreate(s)
    \/ \E s \in Slots : PostCreate(s)
    \/ \E s \in Slots : PostReward(s)
    \/ \E s \in Slots : Aggregate(s)
    \/ \E s \in Slots : ReplyFind(s)
    \/ \E s \in Slots : ReplyCreate(s)
    \/ \E s \in Slots : ReplyInc(s)
    \/ \E s \in Slots : ReplyReward(s)
    \/ \E s \in Slots : BanPosts(s)
    \/ \E s \in Slots : BanReplies(s)

Spec == Init /\ [][Next]_vars

(***************************************************************************)
(* The report threshold takes three reports on one entity.  SpecReport     *)
(* starts from a store the API has already written to: KeyA has posted,    *)
(* KeyB has posted twice and has replied to KeyA's post, and KeyB's first  *)
(* post has been reported twice; the database was seeded before, or not.   *)
(* From there it takes reports, bans and selections.                       *)
(***************************************************************************)
InitReport ==
    /\ seeded \in BOOLEAN
    /\ \E g \in SeedSplits :
         LET base == IF seeded THEN SeededPosts(g, 0) ELSE << >>
             a == Len(base) + 1
             b == Len(base) + 2
         IN  /\ posts = base
                        \o << [NewPost("general", KeyA, 1) EXCEPT !.replyCount = 1],
                              [NewPost("love", KeyB, 2) EXCEPT !.reports = Field(2)],
                              NewPost("general", KeyB, 3) >>
             /\ replies = << NewReply(a, KeyB, FALSE) >>
             /\ answered = [e \in {<<"post", b>>} |-> 2]
    /\ users = [k \in {KeyA, KeyB} |->
                   [lightPoints |-> IF k = KeyA THEN PostPoints
                                    ELSE PostPoints + PostPoints + ReplyPoints,
                    isBanned |-> FALSE]]
    /\ now = 3
    /\ reqs = [s \in Slots |-> Idle]
    /\ response = NoResponse
    /\ left = MaxReports

NextReport ==
    \/ \E s \in Slots : StartRandom(s)
    \/ \E s \in Slots : StartReport(s)
    \/ \E s \in Slots : StartBan(s)
    \/ \E s \in Slots : Aggregate(s)
    \/ \E s \in Slots : ReportInc(s)
    \/ \E s \in Slots : ReportHide(s)
    \/ \E s \in Slots : BanPosts(s)
    \/ \E s \in Slots : BanReplies(s)

SpecReport == InitReport /\ [][NextReport]_vars

(***************************************************************************)
(* replyCount against reports and bans.  SpecReply starts from a store in  *)
(* which KeyA has posted, the post has been reported twice, and KeyB is a  *)
(* known user.  From there it takes replies, reports and bans.             *)
(***************************************************************************)
InitReply ==
    /\ seeded = FALSE
    /\ posts = << [NewPost("general", KeyA, 1) EXCEPT !.reports = Field(2)] >>
    /\ replies = << >>
    /\ answered = [e \in {<<"post", 1>>} |-> 2]
    /\ users = [k \in {KeyA, KeyB} |->
                   [lightPoints |-> IF k = KeyA THEN PostPoints ELSE 0,
                    isBanned |-> FALSE]]
    /\ now = 1
    /\ reqs = [s \in Slots |-> Idle]
    /\ response = NoResponse
    /\ left = MaxReports

NextReply ==
    \/ \E s \in Slots : StartReply(s)
    \/ \E s \in Slots : StartReport(s)
    \/ \E s \in Slots : StartBan(s)
    \/ \E s \in Slots : ReplyFind(s)
    \/ \E s \in Slots : ReplyCreate(s)
    \/ \E s \in Slots : ReplyInc(s)
    \/ \E s \in Slots : ReplyReward(s)
    \/ \E s \in Slots : ReportInc(s)
    \/ \E s \in Slots : ReportHide(s)
    \/ \E s \in Slots : BanPosts(s)
    \/ \E s \in Slots : BanReplies(s)

SpecReply == InitReply /\ [][NextReply]_vars

(***************************************************************************)
(* Failing database operations.  No handler wraps its awaits in try/catch  *)
(* and none runs in a transaction: an operation that rejects (a lost       *)
(* connection, a timeout) rejects the handler's promise where it stands,   *)
(* and what the handler wrote before stays written.  SpecFault is the      *)
(* store of SpecReply with the post, reply, report and ban routes, where   *)
(* the operation a request waits on may fail.                              *)
(***************************************************************************)
\* The awaited operation of the request in slot s rejects: nothing is
\* written and the handler ends there.
Fault(s) ==
    /\ ~ Free(s)
    /\ Settle(s, Thrown(reqs[s]))
    /\ UNCHANGED <<users, posts, replies, now, left, seeded, answered>>

NextFault ==
    \/ \E s \in Slots : StartPost(s)
    \/ \E s \in Slots : StartReply(s)
    \/ \E s \in Slots : StartReport(s)
    \/ \E s \in Slots : StartBan(s)
    \/ \E s \in Slots : PostCreate(s)
    \/ \E s \in Slots : PostReward(s)
    \/ \E s \in Slots : ReplyFind(s)
    \/ \E s \in Slots : ReplyCreate(s)
    \/ \E s \in Slots : ReplyInc(s)
    \/ \E s \in Slots : ReplyReward(s)
    \/ \E s \in Slots : ReportInc(s)
    \/ \E s \in Slots : ReportHide(s)
    \/ \E s \in Slots : BanPosts(s)
    \/ \E s \in Slots : BanReplies(s)
    \/ \E s \in Slots : Fault(s)

SpecFault == InitReply /\ [][NextFault]_vars

(***************************************************************************)
(* moderateText on its own.  SpecModerate draws a text, as its characters, *)
(* and runs the check POST /api/post makes on it: every text of up to      *)
(* MaxTextLen characters over a small alphabet that spells "die" in both   *)
(* cases, and texts around each entry of the denylist.                     *)
(***************************************************************************)
Alphabet == {"d", "i", "e", "D", "I", "E", " ", "a"}

ShortTexts == UNION {[1 .. n -> Alphabet] : n \in 0 .. MaxTextLen}

LongTexts ==
    {Chars(TextDie), Chars(TextDay), Chars(TextStudied),
     <<"s", "u", "i", "c", "i", "d", "e">>,
     <<"S", "u", "i", "c", "i", "d", "e", "s">>,
     <<"s", "u", "i", "c", "i", "d">>,
     <<"k", "i", "l", "l", " ", "m", "y", "s", "e", "l", "f">>,
     <<"k", "i", "l", "l", "m", "y", "s", "e", "l", "f">>,
     <<"M", "U", "R", "D", "E", "R", "E", "R">>,
     <<"m", "u", "r", "d", "e">>,
     <<"I", " ", "H", "a", "t", "e", " ", "Y", "o", "u">>,
     <<"h", "a", "t", "e", " ", " ", "y", "o", "u">>}

InitModerate ==
    /\ users = [k \in {} |-> NewUser]
    /\ posts = << >>
    /\ replies = << >>
    /\ now = 0
    /\ \E t \in ShortTexts \cup LongTexts :
          reqs = [s \in Slots |-> IF s = 1 THEN [pc |-> "moderate", text |-> t]
                                  ELSE Idle]
    /\ response = NoResponse
    /\ left = 0
    /\ seeded = FALSE
    /\ answered = [e \in {} |-> 0]

\* if (!moderateText(text)) return res.status(400)...
Moderate ==
    /\ At(1, "moderate")
    /\ reqs' = [reqs EXCEPT ![1] = Idle]
    /\ response' = [kind |-> "moderate", text |-> reqs[1].text,
                    status |-> IF moderateChars(reqs[1].text) THEN "next" ELSE "400"]
    /\ UNCHANGED <<users, posts, replies, now, left, seeded, answered>>

NextModerate == Moderate

SpecModerate == InitModerate /\ [][NextModerate]_vars

(***************************************************************************)
(* Properties.                                                             *)
(***************************************************************************)
\* The last step answered a selection with the post response.out.
Selected == response.kind = "random" /\ response.status = "200"

\* The posts, and the replies, as entities a report can name.
Entities ==
    {<<"post", i>> : i \in DOMAIN posts} \cup {<<"reply", i>> : i \in DOMAIN replies}

Doc(e) == IF e[1] = "post" THEN posts[e[2]] ELSE replies[e[2]]

\* The status an entity is created with.
Created(e) == IF e[1] = "post" THEN "active" ELSE "visible"

\* Report requests on e that have incremented and not yet answered.
Hiding(e) ==
    Cardinality({s \in Slots : /\ reqs[s].pc = "reportHide"
                               /\ reqs[s].type = e[1]
                               /\ reqs[s].id = Field(e[2])})

\* C1: a selection never returns a post whose author is the requester,
\* whatever the room filter and the state of the store.
C1_NeverOwnPost ==
    Selected => posts[response.out].authorToken # response.key

\* C1 witness: a post of another author is returned to a requester who has
\* a post of their own that is active, unreported and in the filtered room.
C1_Witness ==
    /\ Selected
    /\ \E j \in DOMAIN posts :
         /\ posts[j].authorToken = response.key
         /\ posts[j].status = "active"
         /\ ReportCount(posts[j]) = 0
         /\ (response.room # Absent => posts[j].room = response.room)

\* C2: a returned post is, in the state it is selected in, active, reported
\* fewer than 3 times and, under a room filter, in that room.
C2_ReturnedEligible ==
    Selected =>
        LET p == posts[response.out] IN
        /\ p.status = "active"
        /\ ReportCount(p) < 3
        /\ (response.room # Absent => p.room = response.room)

\* C2 witness: a post is returned while another author's post in the
\* filtered room has 3 reports and is still active (its report has
\* incremented the counter and not yet written the status).
C2_Witness ==
    /\ Selected
    /\ \E j \in DOMAIN posts :
         /\ posts[j].authorToken # response.key
         /\ posts[j].status = "active"
         /\ ReportCount(posts[j]) >= 3
         /\ (response.room # Absent => posts[j].room = response.room)
         /\ Hiding(<<"post", j>>) > 0

\* C5: an entity that 2 reports have been answered for has the status it
\* was created with, and one that 3 reports have been answered for is
\* hidden, whatever was reported besides (an entity the admin deleted is
\* the admin's).
C5_ReportThreshold ==
    \A e \in Entities :
        Doc(e).status # "deleted" =>
            /\ Count(e) = 2 => Doc(e).status = Created(e)
            /\ Count(e) = 3 => Doc(e).status = "hidden"

\* C5 witness: a reply created with no reports, reported 3 times, hidden.
C5_Witness ==
    \E i \in DOMAIN replies :
        /\ Count(<<"reply", i>>) = 3
        /\ ReportCount(replies[i]) = 3
        /\ replies[i].status = "hidden"

\* C6: every report that has incremented is counted: the counter is the
\* answered reports plus those between their increment and their status
\* write; and once none is in between, the entity is hidden exactly when
\* its counter is 3 or more (an entity the admin deleted is the admin's).
C6_NoLostReport ==
    \A e \in Entities :
        /\ ReportCount(Doc(e)) = Count(e) + Hiding(e)
        /\ (Hiding(e) = 0 /\ Doc(e).status # "deleted") =>
               (Doc(e).status = "hidden" <=> ReportCount(Doc(e)) >= 3)

\* C6 witness: two reports on one entity are both past their increment and
\* before their status write.
C6_Witness == \E e \in Entities : Hiding(e) = 2


\* The posts the selection contract calls eligible for a requester and a
\* room filter (Absent: no filter): active, reported fewer than 3 times, by
\* another author, in the filtered room.
Eligible(requester, room) ==
    {i \in DOMAIN posts :
        /\ posts[i].status = "active"
        /\ ReportCount(posts[i]) < 3
        /\ posts[i].authorToken # requester
        /\ (room # Absent => posts[i].room = room)}

\* The first min(M, 50) eligible posts by replyCount ascending, then
\* createdAt descending.
FirstEligible(requester, room) ==
    LET E == Eligible(requester, room)
    IN  {i \in E :
            Cardinality({j \in E :
                \/ posts[j].replyCount < posts[i].replyCount
                \/ /\ posts[j].replyCount = posts[i].replyCount
                   /\ posts[j].createdAt > posts[i].createdAt}) < 50}

\* C3: the posts a selection about to run can return are exactly the first
\* min(M, 50) of its M eligible posts in the order replyCount ascending,
\* createdAt descending: none outside that pool, and all of them when
\* M <= 50.
C3_PoolBound ==
    \A s \in Slots :
        reqs[s].pc = "aggregate" =>
            Sample(posts, reqs[s].key, reqs[s].room)
                = FirstEligible(reqs[s].key, reqs[s].room)

\* C4: a selection answers "no content" exactly when no post is eligible
\* for the requester and the room filter, and a post otherwise.
C4_NoContentIffEmpty ==
    (response.kind = "random" /\ response.status \in {"200", "204"}) =>
        (response.status = "204" <=> Eligible(response.key, response.room) = {})

\* The requests of identity k that are in flight.
InFlight(k) == {s \in Slots : reqs[s].pc # "idle" /\ reqs[s].key = k}

PostsBy(k) == {i \in DOMAIN posts : posts[i].authorToken = k}

RepliesBy(k) == {i \in DOMAIN replies : replies[i].responderToken = k}

\* C7: once an identity has no request in flight, its points are 1 for each
\* post and 5 for each reply it created, whatever the interleaving; and no
\* step decreases the points of any identity.
C7_Points ==
    /\ [](\A k \in DOMAIN users :
            InFlight(k) = {} =>
                users[k].lightPoints
                    = 1 * Cardinality(PostsBy(k)) + 5 * Cardinality(RepliesBy(k)))
    /\ [][\A k \in DOMAIN users : users'[k].lightPoints >= users[k].lightPoints]_vars

\* C7 witness: an identity at rest that created one post and one reply
\* holds 6 points.
C7_Witness ==
    \E k \in DOMAIN users :
        /\ InFlight(k) = {}
        /\ Cardinality(PostsBy(k)) = 1
        /\ Cardinality(RepliesBy(k)) = 1
        /\ users[k].lightPoints = 6

\* C8: the room of every stored post is one of general, love, work, family
\* and life.
C8_RoomInSet ==
    \A i \in DOMAIN posts :
        posts[i].room \in {"general", "love", "work", "family", "life"}

\* A create-reply request is in flight.
ReplyInFlight == \E s \in Slots : reqs[s].pc # "idle" /\ reqs[s].kind = "reply"

RepliesTo(i) == {j \in DOMAIN replies : replies[j].postId = i}

\* C9: whenever no create-reply request is in flight, each post's
\* replyCount is the number of reply records created with its id, hidden
\* and deleted ones included; and no step decrements a replyCount.
C9_ReplyCount ==
    /\ [](~ ReplyInFlight =>
            \A i \in DOMAIN posts :
                posts[i].replyCount = Cardinality(RepliesTo(i)))
    /\ [][\A i \in DOMAIN posts : posts'[i].replyCount >= posts[i].replyCount]_vars

\* C9 witness: a post that is no longer active carries a counted reply
\* that an admin ban has deleted, with no create-reply in flight.
C9_Witness ==
    /\ ~ ReplyInFlight
    /\ \E i \in DOMAIN posts :
         /\ posts[i].status # "active"
         /\ posts[i].replyCount >= 1
         /\ \E j \in RepliesTo(i) : replies[j].status = "deleted"

Steps(s, pc) == reqs[s].pc = pc /\ reqs'[s] # reqs[s]

\* No identity's points change in the step.
PointsUnchanged ==
    \A k \in DOMAIN users : users'[k].lightPoints = users[k].lightPoints

\* C11: a create-post or create-reply request with a missing field or an
\* inadmissible text is rejected and writes nothing: the step that answers
\* 400 leaves the posts, the replies and every identity's points as they
\* are, and no reply is created from a text the denylist rejects.
C11_ValidationNoWrite ==
    [][/\ (response'.kind \in {"post", "reply"} /\ response'.status = "400") =>
              (posts' = posts /\ replies' = replies /\ PointsUnchanged)
       /\ \A s \in Slots :
              Steps(s, "replyCreate") => reqs[s].text \in Admissible]_vars


StoreUnchanged == posts' = posts /\ replies' = replies /\ users' = users

\* C12: a create-reply or a report that names a post or reply the store
\* does not hold ends with the not-found answer (404, which is neither the
\* 400 of a validation failure nor a success) and changes no state.
C12_NotFound ==
    [][\A s \in Slots :
          /\ (Steps(s, "replyFind") /\ ~ Exists(posts, reqs[s].id)) =>
                 (response'.status = "404" /\ StoreUnchanged)
          /\ (Steps(s, "reportInc")
                /\ ~ Exists(Coll(Branch(reqs[s].type)), reqs[s].id)) =>
                 (response'.status = "404" /\ StoreUnchanged)]_vars


\* No request is in flight.
Quiet == \A s \in Slots : Free(s)

\* C13: an operation that fails leaves none of its writes behind: once no
\* request is in flight, every post has brought its author 1 point and
\* every reply its responder 5, every reply is counted in its post's
\* replyCount, and every entity reported 3 times or more is hidden (or
\* deleted by the admin).
C13_AllOrNothing ==
    Quiet =>
        /\ \A k \in DOMAIN users :
               users[k].lightPoints
                   = 1 * Cardinality(PostsBy(k)) + 5 * Cardinality(RepliesBy(k))
        /\ \A i \in DOMAIN posts :
               posts[i].replyCount = Cardinality(RepliesTo(i))
        /\ \A e \in Entities :
               ReportCount(Doc(e)) >= 3 => Doc(e).status \in {"hidden", "deleted"}


\* C14: only well-formed keys have an identity, and resolving a well-formed
\* key that had none succeeds: the request that creates the identity is not
\* left without an answer, and the key then has its identity, created with
\* 0 points and not banned when this request created it.
C14_Resolve ==
    /\ [](\A k \in DOMAIN users : keyPattern(k))
    /\ [][\A s \in Slots :
             Steps(s, "authCreate") =>
                 /\ (response' = NoResponse \/ response'.status # "rejected")
                 /\ reqs[s].key \in DOMAIN users'
                 /\ (reqs[s].key \notin DOMAIN users =>
                         users'[reqs[s].key] = [lightPoints |-> 0, isBanned |-> FALSE])]_vars


Denylist ==
    {<<"s", "u", "i", "c", "i", "d", "e">>,
     <<"k", "i", "l", "l", " ", "m", "y", "s", "e", "l", "f">>,
     <<"d", "i", "e">>,
     <<"m", "u", "r", "d", "e", "r">>,
     <<"h", "a", "t", "e", " ", "y", "o", "u">>}

\* Character c is l, or the upper-case letter of the lower-case letter l.
IsLowerOf(l, c) ==
    c = l \/ \E i \in DOMAIN UpperChars : UpperChars[i] = c /\ LowerChars[i] = l

\* Some entry of the denylist occurs in t at some position, case ignored.
ContainsDenied(t) ==
    \E w \in Denylist : \E i \in 0 .. (Len(t) - Len(w)) :
        \A j \in 1 .. Len(w) : IsLowerOf(w[j], t[i + j])

\* The check has answered on a text.
Moderated == response.kind = "moderate"

\* C15: the admissibility check rejects a text exactly when one of suicide,
\* kill myself, die, murder, hate you occurs in it at any position, case
\* ignored and word boundaries not considered; "I want to die today" is
\* rejected and "I had a great day" is accepted.
C15_Substring ==
    Moderated =>
        /\ response.status = "400" <=> ContainsDenied(response.text)
        /\ response.text = Chars("I want to die today") => response.status = "400"
        /\ response.text = Chars("I had a great day") => response.status = "next"

\* C15 witness: a text that holds a denied entry inside another word and in
\* upper case is rejected.
C15_Witness ==
    /\ Moderated
    /\ response.text = Chars("I STUDIED")
    /\ response.status = "400"


\* Entity e after the step.
DocAfter(e) == IF e[1] = "post" THEN posts'[e[2]] ELSE replies'[e[2]]

\* Slot s takes a step of a report on entity e, from position pc.
ReportSteps(s, pc, e) ==
    /\ Steps(s, pc)
    /\ Branch(reqs[s].type) = e[1]
    /\ reqs[s].id = Field(e[2])

\* C16: a hidden post or reply never becomes active or visible again, and
\* a further report on it adds 1 to its report counter and leaves it
\* hidden.
C16_HideOneWay ==
    [][\A e \in Entities :
          Doc(e).status = "hidden" =>
              /\ DocAfter(e).status \notin {"active", "visible"}
              /\ \A s \in Slots :
                     /\ ReportSteps(s, "reportInc", e) =>
                            /\ ReportCount(DocAfter(e)) = ReportCount(Doc(e)) + 1
                            /\ DocAfter(e).status = "hidden"
                     /\ ReportSteps(s, "reportHide", e) =>
                            /\ ReportCount(DocAfter(e)) = ReportCount(Doc(e))
                            /\ DocAfter(e).status = "hidden"]_vars

\* C16 witness: a post that was hidden at its third report has been
\* reported a fourth time and is hidden.
C16_Witness ==
    /\ Quiet
    /\ \E i \in DOMAIN posts :
         /\ posts[i].status = "hidden"
         /\ ReportCount(posts[i]) = 4
         /\ Count(<<"post", i>>) = 4


\* The step is one of a selection request: its arrival, the creation of
\* its user, or its aggregate.
SelectionStep ==
    \/ response' # NoResponse /\ response'.kind = "random"
    \/ \E s \in Slots :
         /\ reqs'[s] # reqs[s]
         /\ \/ reqs[s].pc # "idle" /\ reqs[s].kind = "random"
            \/ reqs'[s].pc # "idle" /\ reqs'[s].kind = "random"

\* C17: no step of a selection request changes a post, a reply, or the
\* points or the banned flag of an identity, whether it answers with a post
\* or with no content.
C17_SelectionReadOnly ==
    [][SelectionStep =>
          /\ posts' = posts
          /\ replies' = replies
          /\ \A k \in DOMAIN users : users'[k] = users[k]]_vars

\* C17 witness: a selection has returned a post to a requester whose
\* identity it created.
C17_Witness ==
    /\ response.kind = "random"
    /\ response.status = "200"
    /\ response.key \in DOMAIN users
    /\ users[response.key] = NewUser
    /\ posts[response.out].replyCount = 0


\* A ban of token t with deleteContent has completed.
BanCompleted(t) == Count(<<"ban", t>>) > 0

\* C18: once a ban of T with deleteContent has completed, no post by T is
\* active and no reply by T is visible, whatever requests of T were in
\* flight when the ban was issued; so no selection returns a post by T.
C18_BannedContentGone ==
    \A t \in DOMAIN users :
        BanCompleted(t) =>
            /\ \A i \in PostsBy(t) : posts[i].status # "active"
            /\ \A j \in RepliesBy(t) : replies[j].status # "visible"
            /\ (Selected => posts[response.out].authorToken # t)


\* C19: a post or reply that is deleted stays deleted: no step, and in
\* particular no report that brings or keeps its counter at 3 or more,
\* gives it another status.
C19_DeletedTerminal ==
    [][\A e \in Entities :
          Doc(e).status = "deleted" => DocAfter(e).status = "deleted"]_vars

=============================================================================
